---- MODULE Spec2Model ----
(***************************************************************************)
(* fdbexporter: the scrape driver (run_status_fetcher), the fetch pipeline *)
(* (fetch_cluster_status), the decoding of the cluster data subtree of the *)
(* status document, its conversion to gauges, the error counters, and the  *)
(* select! of main over the fetcher and the HTTP server; the metrics       *)
(* handler reading the gauges while a conversion pass writes them; a keyed *)
(* metric family across conversion passes; and the two endpoint parsers,   *)
(* FdbProcessAddress::parse with its Display and NetworkAddress::from_str. *)
(***************************************************************************)
EXTENDS Integers, Sequences, FiniteSets, TLC

VARIABLES
    cluster,     \* config.cluster: "none", "utf8" (Some, valid text), "nonutf8"
    pc,          \* run_status_fetcher: "fetch", "match", "sleep", "returned"
    json_bytes,  \* the bytes the last fetch read from the status key (or NoBytes)
    status,      \* the Result the last fetch_cluster_status returned
    gauge,       \* value of every IntGauge of cluster_data.rs
    counter,     \* value of every IntCounter of metrics/prometheus/mod.rs
    registered,  \* lazy_static metrics already dereferenced (registered)
    ticks,       \* kinds of the results the driver has received, in order
    httpPc,      \* run_http_server: "bind", "accept", "returned"
    proc,        \* the process: "running", "exited"
    exitCode,    \* exit status of the process once exited
    log,         \* error! lines written by main
    env,         \* which family of documents the status key is made to hold
    sleeps,      \* the durations the driver has slept, in order
    pending,     \* gauge writes the running conversion pass has still to do
    snapshot,    \* the gauges the last GET /metrics read (or NoSnapshot)
    series,      \* a keyed metric family: the reading of the series of each key
    keyedDocs,   \* the keyed fields of the documents converted so far, in order
    text,        \* the endpoint text given to the parsers
    address,     \* what FdbProcessAddress::parse returned for it (or NotParsed)
    rendered,    \* the Display of the parsed address (empty until rendered)
    network      \* what NetworkAddress::from_str returned for it

\* The driver and the server loop
driver == <<cluster, pc, json_bytes, status, gauge, counter, registered, ticks,
            httpPc, proc, exitCode, log, env, sleeps>>
\* The keyed metric family
keyed == <<series, keyedDocs>>
\* The endpoint parsers
parser == <<text, address, rendered, network>>
\* What the steps of the driver and of the server loop leave alone
aside == <<pending, snapshot, keyed, parser>>

vars == <<driver, aside>>

\* Number of fetches the model lets the driver issue.
MaxTicks == 2

(***************************************************************************)
(* JSON values of the status document                                      *)
(***************************************************************************)
JAbsent == [t |-> "absent", n |-> 0, s |-> ""]
JNull == [t |-> "null", n |-> 0, s |-> ""]
JInt(n) == [t |-> "int", n |-> n, s |-> ""]
JStr(s) == [t |-> "str", n |-> 0, s |-> s]
JBool(b) == [t |-> "bool", n |-> IF b THEN 1 ELSE 0, s |-> ""]

\* Option<T> and Result of a field's deserialisation
None == [some |-> FALSE, v |-> 0]
Some(v) == [some |-> TRUE, v |-> v]
DeOk(v) == [ok |-> TRUE, v |-> v]
DeErr == [ok |-> FALSE, v |-> 0]

\* Option<i64>: a missing key and null give None, an integer Some, else an error
DeOptI64(j) ==
    CASE j.t \in {"absent", "null"} -> DeOk(None)
      [] j.t = "int" -> DeOk(Some(j.n))
      [] OTHER -> DeErr

\* Option<bool>
DeOptBool(j) ==
    CASE j.t \in {"absent", "null"} -> DeOk(None)
      [] j.t = "bool" -> DeOk(Some(j.n))
      [] OTHER -> DeErr

\* i64 with no serde default: a missing key is the error "missing field"
DeI64(j) ==
    IF j.t = "int" THEN DeOk(j.n) ELSE DeErr

\* ClusterDataStateName: the serde tag of each variant, in declaration order,
\* so that the discriminant (`name as i64`) of the i-th variant is i - 1
StateNameTags ==
    << "initializing", "missing_data", "healing", "optimizing_team_collections",
       "healthy_populating_region", "healthy_repartitioning",
       "healthy_removing_server", "healthy_rebalancing", "healthy",
       "healthy_perpetual_wiggle", "unknown" >>

\* Discriminant numbering the variants from one
DiscriminantFromOne(tag) ==
    CHOOSE i \in 1..Len(StateNameTags) : StateNameTags[i] = tag

\* `name as i64`: the variants are numbered from zero in declaration order
Discriminant(tag) ==
    (CHOOSE i \in 1..Len(StateNameTags) : StateNameTags[i] = tag) - 1

\* #[default] Unknown
DefaultStateName == Discriminant("unknown")

RecognizedTags == {StateNameTags[i] : i \in 1..Len(StateNameTags)}

\* The derived Deserialize of the enum: a string that is a variant's tag gives
\* that variant; the derive has no #[serde(other)], so any other string is the
\* error "unknown variant", and a non-string an "invalid type" error.
DeStateName(j) ==
    CASE j.t = "absent" -> DeOk(DefaultStateName)   \* #[serde(default)] on the field
      [] j.t = "str" /\ j.s \in RecognizedTags -> DeOk(Discriminant(j.s))
      [] OTHER -> DeErr

\* Option<String>
DeOptString(j) ==
    CASE j.t \in {"absent", "null"} -> DeOk(None)
      [] j.t = "str" -> DeOk(Some(1))
      [] OTHER -> DeErr

\* The Option<i64> fields of ClusterData
ScalarKeys ==
    { "average_partition_size_bytes", "least_operating_space_bytes_log_server",
      "least_operating_space_bytes_storage_server", "partitions_count",
      "total_disk_used_bytes", "total_kv_size_bytes" }

\* The i64 fields of ClusterDataMoving
MovingKeys ==
    { "highest_priority", "in_flight_bytes", "in_queue_bytes", "total_written_bytes" }

\* A JSON object is a record of its keys' values with t = "obj"; a key the
\* object does not hold has the value JAbsent.

\* ClusterDataState (derived Deserialize): Option<ClusterDataState> at the use
DeClusterDataState(j) ==
    CASE j.t \in {"absent", "null"} -> DeOk(None)
      [] j.t = "obj" ->
            LET healthy == DeOptBool(j.healthy)
                description == DeOptString(j.description)
                min_replicas_remaining == DeOptI64(j.min_replicas_remaining)
                name == DeStateName(j.name)
            IN  IF healthy.ok /\ description.ok /\ min_replicas_remaining.ok /\ name.ok
                THEN DeOk(Some([healthy |-> healthy.v, name |-> name.v]))
                ELSE DeErr
      [] OTHER -> DeErr

\* ClusterDataMoving (derived Deserialize): every field is required
DeClusterDataMoving(j) ==
    CASE j.t \in {"absent", "null"} -> DeOk(None)
      [] j.t = "obj" ->
            LET f == [k \in MovingKeys |-> DeI64(j.fields[k])]
            IN  IF \A k \in MovingKeys : f[k].ok
                THEN DeOk(Some([k \in MovingKeys |-> f[k].v]))
                ELSE DeErr
      [] OTHER -> DeErr

\* ClusterData (derived Deserialize)
DeClusterData(j) ==
    LET f == [k \in ScalarKeys |-> DeOptI64(j.scalars[k])]
        moving_data == DeClusterDataMoving(j.moving_data)
        state == DeClusterDataState(j.state)
    IN  IF (\A k \in ScalarKeys : f[k].ok) /\ moving_data.ok /\ state.ok
        THEN DeOk([scalars |-> [k \in ScalarKeys |-> f[k].v],
                   moving_data |-> moving_data.v,
                   state |-> state.v])
        ELSE DeErr

\* The bytes of the status key: not JSON at all, or a document whose root may
\* lack "cluster", whose cluster may lack "data", or that holds a data object.
\* Status and ClusterStatus hold their subtrees as Options.
DeStatus(bytes) ==
    CASE bytes.root = "malformed" -> DeErr
      [] bytes.root \in {"no_cluster", "no_data"} -> DeOk([data |-> None])
      [] OTHER ->
            LET data == DeClusterData(bytes)
            IN  IF data.ok THEN DeOk([data |-> Some(data.v)]) ELSE DeErr

(***************************************************************************)
(* The metrics: lazy_static gauges and counters of the default registry    *)
(***************************************************************************)
\* The gauge each Option<i64> field of ClusterData is published on
GaugeOf ==
    [k \in ScalarKeys |->
        CASE k = "average_partition_size_bytes" -> "P_CLUSTER_AVG_PARTITION_BYTES_GAUGE"
          [] k = "least_operating_space_bytes_log_server" ->
                "P_CLUSTER_LEAST_SPACE_BYTES_LOG_SERVER_GAUGE"
          [] k = "least_operating_space_bytes_storage_server" ->
                "P_CLUSTER_LEAST_SPACE_BYTES_STORAGE_SERVER"
          [] k = "partitions_count" -> "P_CLUSTER_PARTITION_COUNT"
          [] k = "total_disk_used_bytes" -> "P_CLUSTER_TOTAL_DISK_USED_BYTES"
          [] k = "total_kv_size_bytes" -> "P_CLUSTER_TOTAL_KV_SIZE_BYTES"]

GaugeNames ==
    {GaugeOf[k] : k \in ScalarKeys} \cup
    { "P_CLUSTER_STATE_HEALTHY", "P_CLUSTER_STATE_CURRENT",
      "P_CLUSTER_MOVING_DATA_IN_FLIGHT_BYTES", "P_CLUSTER_MOVING_DATA_IN_QUEUE_BYTES" }

\* The error kinds of FetchError and the counter of each
ErrorKinds == {"Parsing", "Fdb", "FdbBinding", "StatusNotFound"}

CounterOf ==
    [k \in ErrorKinds |->
        CASE k = "Fdb" -> "P_FDB_EXPORTER_FDB_ERROR"
          [] k = "FdbBinding" -> "P_FDB_EXPORTER_FDB_BINDING_ERROR"
          [] k = "StatusNotFound" -> "P_FDB_EXPORTER_STATUS_NOT_FOUND"
          [] k = "Parsing" -> "P_FDB_EXPORTER_PARSING_ERROR"]

CounterNames == {CounterOf[k] : k \in ErrorKinds}

\* One IntGauge::set
Write(g, v) == <<[g |-> g, v |-> v]>>

\* The order in which to_metrics reads the Option<i64> fields
ScalarOrder ==
    << "total_kv_size_bytes", "total_disk_used_bytes", "partitions_count",
       "least_operating_space_bytes_log_server",
       "least_operating_space_bytes_storage_server",
       "average_partition_size_bytes" >>

\* `if let Some(x) = self.field { GAUGE.set(x) }` for the fields from..6 of ScalarOrder
RECURSIVE ScalarWrites(_, _)
ScalarWrites(data, from) ==
    IF from > Len(ScalarOrder) THEN <<>>
    ELSE LET k == ScalarOrder[from]
         IN  (IF data.scalars[k].some THEN Write(GaugeOf[k], data.scalars[k].v) ELSE <<>>)
             \o ScalarWrites(data, from + 1)

\* StateWrites with the write of the state gauge moved inside
\* `if let Some(health) = state.healthy`
StateWritesUnderHealthy(data) ==
    IF data.state.some /\ data.state.v.healthy.some
    THEN Write("P_CLUSTER_STATE_HEALTHY", data.state.v.healthy.v)
         \o Write("P_CLUSTER_STATE_CURRENT", data.state.v.name)
    ELSE <<>>

\* `if let Some(state) = &self.state { ... }`
StateWrites(data) ==
    IF data.state.some
    THEN (IF data.state.v.healthy.some
          THEN Write("P_CLUSTER_STATE_HEALTHY", data.state.v.healthy.v)
          ELSE <<>>)
         \o Write("P_CLUSTER_STATE_CURRENT", data.state.v.name)
    ELSE <<>>

\* MovingWrites taking an absent moving_data for no data in movement: zeros
MovingWritesZeroWhenAbsent(data) ==
    IF data.moving_data.some
    THEN Write("P_CLUSTER_MOVING_DATA_IN_FLIGHT_BYTES", data.moving_data.v["in_flight_bytes"])
         \o Write("P_CLUSTER_MOVING_DATA_IN_QUEUE_BYTES", data.moving_data.v["in_queue_bytes"])
    ELSE Write("P_CLUSTER_MOVING_DATA_IN_FLIGHT_BYTES", 0)
         \o Write("P_CLUSTER_MOVING_DATA_IN_QUEUE_BYTES", 0)

\* `if let Some(moving_data) = &self.moving_data { ... }`
MovingWrites(data) ==
    IF data.moving_data.some
    THEN Write("P_CLUSTER_MOVING_DATA_IN_FLIGHT_BYTES", data.moving_data.v["in_flight_bytes"])
         \o Write("P_CLUSTER_MOVING_DATA_IN_QUEUE_BYTES", data.moving_data.v["in_queue_bytes"])
    ELSE <<>>

\* ClusterData::to_metrics: the gauge writes it performs, in order
ClusterDataToMetrics(data) ==
    ScalarWrites(data, 1) \o StateWrites(data) \o MovingWrites(data)

\* process_metrics: the conversion of the subtrees the document holds
ProcessMetrics(st) ==
    IF st.data.some THEN ClusterDataToMetrics(st.data.v) ELSE <<>>

\* The gauges after a sequence of writes
RECURSIVE ApplyWrites(_, _)
ApplyWrites(g, ws) ==
    IF ws = <<>> THEN g
    ELSE ApplyWrites([g EXCEPT ![Head(ws).g] = Head(ws).v], Tail(ws))

\* The statics a sequence of writes dereferences
Touched(ws) == {ws[i].g : i \in 1..Len(ws)}

(***************************************************************************)
(* fetch_cluster_status                                                    *)
(***************************************************************************)
NoStatus == [data |-> None]

Ok(st) == [kind |-> "Ok", err |-> "", value |-> st]
Err(kind, e) == [kind |-> kind, err |-> e, value |-> NoStatus]
NoResult == [kind |-> "None", err |-> "", value |-> NoStatus]

\* A document: the record of a JSON text's keys down to cluster.data
AbsentState ==
    [t |-> "absent", healthy |-> JAbsent, description |-> JAbsent,
     min_replicas_remaining |-> JAbsent, name |-> JAbsent]
AbsentMoving == [t |-> "absent", fields |-> [k \in MovingKeys |-> JAbsent]]
EmptyData ==
    [root |-> "data", scalars |-> [k \in ScalarKeys |-> JAbsent],
     moving_data |-> AbsentMoving, state |-> AbsentState]
NoBytes == [EmptyData EXCEPT !.root = "none"]

\* The outcome of the pipeline for a cluster file setting `c`, the Result
\* `open` of Database::from_path / Database::default, the Result `read` of
\* db.run ("err", or the Option of the key's value: "none", "some") and the
\* bytes read. from_path and default return an FdbError, db.run returns an
\* FdbBindingError (a failed read is its variant NonRetryableFdbError); each
\* goes through `?` and the From impl of its type.
FetchClusterStatus(c, open, read, bytes) ==
    CASE c = "nonutf8" -> Err("FdbBinding", "CustomError")
      [] c # "nonutf8" /\ open = "err" -> Err("Fdb", "FdbError")
      [] c # "nonutf8" /\ open = "ok" /\ read = "err" ->
            Err("FdbBinding", "NonRetryableFdbError")
      [] c # "nonutf8" /\ open = "ok" /\ read = "none" -> Err("StatusNotFound", "")
      [] OTHER ->
            LET st == DeStatus(bytes)
            IN  IF st.ok THEN Ok(st.v) ELSE Err("Parsing", "serde")

\* Whether the pipeline got as far as reading bytes
ReadsBytes(c, open, read) == c # "nonutf8" /\ open = "ok" /\ read = "some"

(***************************************************************************)
(* The documents the status key is made to hold                            *)
(***************************************************************************)
IntInputs == {7, 42}
ScalarInputs == {JInt(n) : n \in IntInputs} \cup {JNull, JStr("x")}
NameInputs == {JAbsent, JStr("healthy"), JStr("initializing"), JStr("foo")}
HealthyInputs == {JAbsent, JBool(TRUE), JBool(FALSE)}

ObjState(healthy, name) ==
    [AbsentState EXCEPT !.t = "obj", !.healthy = healthy, !.name = name]
ObjMoving(f) == [t |-> "obj", fields |-> f]
FullMoving(a, b) ==
    ObjMoving([k \in MovingKeys |->
        CASE k = "in_flight_bytes" -> JInt(a)
          [] k = "in_queue_bytes" -> JInt(b)
          [] OTHER -> JInt(7)])

ScalarDocs ==
    {[EmptyData EXCEPT !.scalars[k] = j] : k \in ScalarKeys, j \in ScalarInputs}
StateDocs ==
    {[EmptyData EXCEPT !.state = ObjState(h, n)] : h \in HealthyInputs, n \in NameInputs}
MovingDocs ==
    {[EmptyData EXCEPT !.moving_data = FullMoving(a, b)] : a, b \in IntInputs}
    \cup {[EmptyData EXCEPT !.moving_data =
                ObjMoving([FullMoving(7, 42).fields EXCEPT ![k] = JAbsent])] :
            k \in MovingKeys}
FullDoc ==
    [root |-> "data", scalars |-> [k \in ScalarKeys |-> JInt(42)],
     moving_data |-> FullMoving(42, 7),
     state |-> [ObjState(JBool(TRUE), JStr("healthy")) EXCEPT
                    !.description = JStr("x"), !.min_replicas_remaining = JInt(7)]]
\* `"state": null` and `"moving_data": null`
NullDocs ==
    { [EmptyData EXCEPT !.state.t = "null"], [EmptyData EXCEPT !.moving_data.t = "null"] }
Documents ==
    {[EmptyData EXCEPT !.root = r] : r \in {"malformed", "no_cluster", "no_data"}}
    \cup {EmptyData, FullDoc} \cup NullDocs \cup ScalarDocs \cup StateDocs \cup MovingDocs

\* One document per phase name the decoder knows, with and without the flag
PhaseDocs ==
    {[EmptyData EXCEPT !.state = ObjState(h, JStr(StateNameTags[i]))] :
        h \in HealthyInputs, i \in 1..Len(StateNameTags)}
    \cup {[EmptyData EXCEPT !.state = ObjState(h, JAbsent)] : h \in HealthyInputs}
    \cup {EmptyData}
\* Documents that write two or more gauges in one conversion pass
ReadDocs ==
    {[EmptyData EXCEPT !.scalars["total_kv_size_bytes"] = JInt(a),
                       !.scalars["total_disk_used_bytes"] = JInt(b)] : a, b \in IntInputs}
    \cup {EmptyData}
\* The documents the status key holds in this run
Held ==
    CASE env = "any" -> Documents
      [] env = "phases" -> PhaseDocs
      [] env = "reads" -> ReadDocs

(***************************************************************************)
(* run_status_fetcher                                                      *)
(***************************************************************************)
Running == proc = "running"

\* `let status = fetch_cluster_status(cluster_path).await;`
Fetch ==
    /\ Running /\ pc = "fetch" /\ Len(ticks) < MaxTicks
    /\ \E open \in {"ok", "err"}, read \in {"err", "none", "some"} :
          \E bytes \in IF ReadsBytes(cluster, open, read) THEN Held ELSE {NoBytes} :
             /\ status' = FetchClusterStatus(cluster, open, read, bytes)
             /\ json_bytes' = bytes
    /\ ticks' = Append(ticks, status'.kind)
    /\ pc' = "match"
    /\ UNCHANGED <<cluster, gauge, counter, registered, httpPc, proc, exitCode, log, env, sleeps, aside>>

\* `Ok(status) => process_metrics(status)`
MatchOk ==
    /\ Running /\ pc = "match" /\ status.kind = "Ok"
    /\ LET ws == ProcessMetrics(status.value)
       IN  /\ gauge' = ApplyWrites(gauge, ws)
           /\ registered' = registered \cup Touched(ws)
    /\ pc' = "sleep"
    /\ UNCHANGED <<cluster, json_bytes, status, counter, ticks, httpPc, proc, exitCode, log, env, sleeps, aside>>

\* What main returns after the select!: `Ok(())`, the exit status 0
MainReturn == 0

\* The select! of main once a branch's future has returned, which each does
\* only with an Err: the error! line of the branch, the drop of the other
\* future and of the network, and the return of main, in the same poll.
MainSelect(line) ==
    /\ log' = log \cup {line}
    /\ proc' = "exited"
    /\ exitCode' = MainReturn

\* MatchFdbBinding without its arm: the binding failure falls to `Err(e)`,
\* is counted, and the loop sleeps
MatchFdbBindingCounted ==
    /\ Running /\ pc = "match" /\ status.kind = "FdbBinding"
    /\ counter' = [counter EXCEPT ![CounterOf["FdbBinding"]] = @ + 1]
    /\ registered' = registered \cup {CounterOf["FdbBinding"]}
    /\ pc' = "sleep"
    /\ UNCHANGED <<cluster, json_bytes, status, gauge, ticks, httpPc, proc, exitCode, log, env, sleeps, aside>>

\* `Err(FetchError::FdbBinding(e)) => return Err(e.into())`, and main's
\* branch `fetcher = run_status_fetcher(&cli)`
MatchFdbBinding ==
    /\ Running /\ pc = "match" /\ status.kind = "FdbBinding"
    /\ pc' = "returned"
    /\ MainSelect("HTTP fetcher thread failed")
    /\ UNCHANGED <<cluster, json_bytes, status, gauge, counter, registered, ticks, httpPc, env, sleeps, aside>>

\* FetchErrorToMetrics with every arm on the parsing counter
FetchErrorToMetricsParsingOnly(c, kind) ==
    [c EXCEPT !["P_FDB_EXPORTER_PARSING_ERROR"] = @ + 1]

\* FetchError::to_metrics: the counter of the error's kind, incremented
FetchErrorToMetrics(c, kind) == [c EXCEPT ![CounterOf[kind]] = @ + 1]

\* MatchErr that also resets the gauges of the tick that failed
MatchErrResettingGauges ==
    /\ Running /\ pc = "match" /\ status.kind \in ErrorKinds \ {"FdbBinding"}
    /\ counter' = [counter EXCEPT ![CounterOf[status.kind]] = @ + 1]
    /\ registered' = registered \cup {CounterOf[status.kind]}
    /\ gauge' = [g \in GaugeNames |-> 0]
    /\ pc' = "sleep"
    /\ UNCHANGED <<cluster, json_bytes, status, ticks, httpPc, proc, exitCode, log, env, sleeps, aside>>

\* `Err(e) => e.to_metrics(&[])`
MatchErr ==
    /\ Running /\ pc = "match" /\ status.kind \in ErrorKinds \ {"FdbBinding"}
    /\ counter' = FetchErrorToMetrics(counter, status.kind)
    /\ registered' = registered \cup {CounterOf[status.kind]}
    /\ pc' = "sleep"
    /\ UNCHANGED <<cluster, json_bytes, status, gauge, ticks, httpPc, proc, exitCode, log, env, sleeps, aside>>

\* `default_value = "15"` of delay_sec: the period the model configures
DelaySec == 15

\* Sleep backing off after a tick that failed: twice the period
SleepBackingOff ==
    /\ Running /\ pc = "sleep"
    /\ sleeps' = Append(sleeps, IF status.kind = "Ok" THEN DelaySec ELSE 2 * DelaySec)
    /\ pc' = "fetch"
    /\ UNCHANGED <<cluster, json_bytes, status, gauge, counter, registered, ticks,
                   httpPc, proc, exitCode, log, env, aside>>

\* `sleep(config.delay_sec).await;`
Sleep ==
    /\ Running /\ pc = "sleep"
    /\ sleeps' = Append(sleeps, DelaySec)
    /\ pc' = "fetch"
    /\ UNCHANGED <<cluster, json_bytes, status, gauge, counter, registered, ticks,
                   httpPc, proc, exitCode, log, env, aside>>

(***************************************************************************)
(* run_http_server, under main's branch `server = run_http_server(&cli)`   *)
(***************************************************************************)
\* `TcpListener::bind(addr).await?`
HttpBind ==
    /\ Running /\ httpPc = "bind"
    /\ \/ /\ httpPc' = "accept"
          /\ UNCHANGED <<proc, exitCode, log>>
       \/ /\ httpPc' = "returned"
          /\ MainSelect("HTTP server thread failed")
    /\ UNCHANGED <<cluster, pc, json_bytes, status, gauge, counter, registered, ticks, env, sleeps, aside>>

\* `listener.accept().await?` failing; an accepted connection is served by a
\* spawned task and the loop accepts again
HttpAcceptErr ==
    /\ Running /\ httpPc = "accept"
    /\ httpPc' = "returned"
    /\ MainSelect("HTTP server thread failed")
    /\ UNCHANGED <<cluster, pc, json_bytes, status, gauge, counter, registered, ticks, env, sleeps, aside>>

(***************************************************************************)
(* The metrics handler, served by a spawned task while the driver converts *)
(***************************************************************************)
\* `Ok(status) => process_metrics(status)`, entered: the writes it will do
ProcessMetricsCall ==
    /\ Running /\ pc = "match" /\ status.kind = "Ok"
    /\ pending' = ProcessMetrics(status.value)
    /\ pc' = "convert"
    /\ UNCHANGED <<cluster, json_bytes, status, gauge, counter, registered, ticks,
                   httpPc, proc, exitCode, log, env, sleeps, snapshot, keyed, parser>>

\* One `GAUGE.set(x)` of the pass: the deref of the static and the atomic store
GaugeSet ==
    /\ Running /\ pc = "convert" /\ pending # <<>>
    /\ gauge' = [gauge EXCEPT ![Head(pending).g] = Head(pending).v]
    /\ registered' = registered \cup {Head(pending).g}
    /\ pending' = Tail(pending)
    /\ UNCHANGED <<cluster, pc, json_bytes, status, counter, ticks,
                   httpPc, proc, exitCode, log, env, sleeps, snapshot, keyed, parser>>

\* process_metrics returns
ProcessMetricsReturn ==
    /\ Running /\ pc = "convert" /\ pending = <<>>
    /\ pc' = "sleep"
    /\ UNCHANGED <<cluster, json_bytes, status, gauge, counter, registered, ticks,
                   httpPc, proc, exitCode, log, env, sleeps, aside>>

\* What prometheus::gather() collects: the value of every registered gauge
Gather(reg, g) == [m \in GaugeNames |-> IF m \in reg THEN Some(g[m]) ELSE None]

\* Metrics collecting and resetting: every gauge read is set back to zero
MetricsResetting ==
    /\ Running /\ httpPc = "accept"
    /\ snapshot' = Gather(registered, gauge)
    /\ gauge' = [m \in GaugeNames |-> 0]
    /\ UNCHANGED <<cluster, pc, json_bytes, status, counter, registered, ticks,
                   httpPc, proc, exitCode, log, env, sleeps, pending, keyed, parser>>

\* `async fn metrics`: the task spawned for an accepted connection encodes
\* `prometheus::gather()`
Metrics ==
    /\ Running /\ httpPc = "accept"
    /\ snapshot' = Gather(registered, gauge)
    /\ UNCHANGED <<driver, pending, keyed, parser>>

(***************************************************************************)
(* A keyed metric family across conversion passes                          *)
(***************************************************************************)
\* Number of documents the model converts into the keyed family
MaxKeyedTicks == 3

\* The label tuples (process addresses) the documents can hold
Keys == {"10.0.0.1:4500", "10.0.0.2:4500"}
\* A key of a document: omitted, or present with an Option field
Omitted == [present |-> FALSE, field |-> None]
Present(opt) == [present |-> TRUE, field |-> opt]
KeyedDocuments ==
    [Keys -> {Omitted, Present(None)} \cup {Present(Some(v)) : v \in IntInputs}]
\* No series of the family exists
NoSeries == [k \in Keys |-> None]

\* StaticMetric::set of a value on the series of its labels: the series is
\* created on the first observation of the labels, overwritten afterwards
StaticMetricSet(fam, labels, v) == [fam EXCEPT ![labels] = Some(v)]

\* and_set_with_labels resetting the series of a field that holds no value
AndSetWithLabelsResetting(fam, labels, opt) ==
    IF opt.some THEN StaticMetricSet(fam, labels, opt.v)
    ELSE StaticMetricSet(fam, labels, 0)

\* `if let Some(v) = self { v.set(metric, labels); }`
AndSetWithLabels(fam, labels, opt) ==
    IF opt.some THEN StaticMetricSet(fam, labels, opt.v) ELSE fam

\* The conversion of the keyed fields of a document: one and_set_with_labels
\* per key the document holds, none for a key it omits
RECURSIVE KeyedToMetrics(_, _, _)
KeyedToMetrics(fam, doc, todo) ==
    IF todo = {} THEN fam
    ELSE LET k == CHOOSE x \in todo : TRUE
             next == IF doc[k].present THEN AndSetWithLabels(fam, k, doc[k].field)
                     ELSE fam
         IN  KeyedToMetrics(next, doc, todo \ {k})

\* A successful tick: the conversion pass over the keyed fields of its document
KeyedTick ==
    /\ Len(keyedDocs) < MaxKeyedTicks
    /\ \E doc \in KeyedDocuments :
          /\ series' = KeyedToMetrics(series, doc, Keys)
          /\ keyedDocs' = Append(keyedDocs, doc)
    /\ UNCHANGED <<driver, pending, snapshot, parser>>

(***************************************************************************)
(* Endpoint texts and the library parsers the endpoint parsers call        *)
(***************************************************************************)
\* A text is a sequence of one-character strings.
Digits == <<"0", "1", "2", "3", "4", "5", "6", "7", "8", "9">>
HexDigits == Digits \o <<"a", "b", "c", "d", "e", "f">>
UpperAlpha ==
    <<"A", "B", "C", "D", "E", "F", "G", "H", "I", "J", "K", "L", "M",
      "N", "O", "P", "Q", "R", "S", "T", "U", "V", "W", "X", "Y", "Z">>
LowerAlpha ==
    <<"a", "b", "c", "d", "e", "f", "g", "h", "i", "j", "k", "l", "m",
      "n", "o", "p", "q", "r", "s", "t", "u", "v", "w", "x", "y", "z">>

\* Position of character c in the sequence of characters cs, 0 if none
IndexIn(cs, c) ==
    IF \E i \in 1..Len(cs) : cs[i] = c
    THEN CHOOSE i \in 1..Len(cs) : cs[i] = c /\ \A j \in 1..(i - 1) : cs[j] # c
    ELSE 0
IsDigit(c) == IndexIn(Digits, c) # 0
DigitVal(c) == IndexIn(Digits, c) - 1
ToAsciiLowercase(c) ==
    IF IndexIn(UpperAlpha, c) # 0 THEN LowerAlpha[IndexIn(UpperAlpha, c)] ELSE c
IsHexDigit(c) == IndexIn(HexDigits, ToAsciiLowercase(c)) # 0
HexVal(c) == IndexIn(HexDigits, ToAsciiLowercase(c)) - 1

RECURSIVE Lowercase(_)
Lowercase(s) ==
    IF s = <<>> THEN <<>> ELSE <<ToAsciiLowercase(Head(s))>> \o Lowercase(Tail(s))

\* str::ends_with
EndsWith(s, suffix) ==
    /\ Len(s) >= Len(suffix)
    /\ SubSeq(s, Len(s) - Len(suffix) + 1, Len(s)) = suffix
\* str::rfind of a character: its last position, 0 for None
RFind(s, c) ==
    IF \E i \in 1..Len(s) : s[i] = c
    THEN CHOOSE i \in 1..Len(s) : s[i] = c /\ \A j \in (i + 1)..Len(s) : s[j] # c
    ELSE 0
\* str::split on a character
RECURSIVE SplitOn(_, _)
SplitOn(s, c) ==
    LET i == IndexIn(s, c)
    IN  IF i = 0 THEN <<s>>
        ELSE <<SubSeq(s, 1, i - 1)>> \o SplitOn(SubSeq(s, i + 1, Len(s)), c)
\* The pieces joined again with the character between them
RECURSIVE JoinWith(_, _)
JoinWith(pieces, c) ==
    IF Len(pieces) = 0 THEN <<>>
    ELSE IF Len(pieces) = 1 THEN pieces[1]
    ELSE pieces[1] \o <<c>> \o JoinWith(Tail(pieces), c)

\* The number a text of digits denotes in the radix
RECURSIVE NumberIn(_, _)
NumberIn(s, radix) ==
    IF s = <<>> THEN 0
    ELSE NumberIn(SubSeq(s, 1, Len(s) - 1), radix) * radix + HexVal(s[Len(s)])
\* The decimal text of a number (Display of an integer)
RECURSIVE ToDecimal(_)
ToDecimal(n) ==
    IF n < 10 THEN <<Digits[n + 1]>>
    ELSE ToDecimal(n \div 10) \o <<Digits[(n % 10) + 1]>>
\* The lower-case hexadecimal text of a number (`{:x}`)
RECURSIVE ToHex(_)
ToHex(n) ==
    IF n < 16 THEN <<HexDigits[n + 1]>>
    ELSE ToHex(n \div 16) \o <<HexDigits[(n % 16) + 1]>>

\* u16::MAX
U16Max == 65535
NumOk(v) == [ok |-> TRUE, v |-> v]
NumErr == [ok |-> FALSE, v |-> 0]
\* str::parse::<u16>: an optional `+`, then one or more decimal digits, leading
\* zeros allowed, the value within u16
ParseU16(s) ==
    LET digits == IF s # <<>> /\ s[1] = "+" THEN Tail(s) ELSE s
    IN  IF digits = <<>> \/ \E i \in 1..Len(digits) : ~IsDigit(digits[i]) THEN NumErr
        ELSE IF NumberIn(digits, 10) > U16Max THEN NumErr
        ELSE NumOk(NumberIn(digits, 10))

\* url::Host<String>: Domain(name), Ipv4(octets), Ipv6(groups), or no host
HostErr == [kind |-> "Err", name |-> <<>>, octets |-> <<>>, groups |-> <<>>]
HostDomain(name) == [HostErr EXCEPT !.kind = "Domain", !.name = name]
HostIpv4(octets) == [HostErr EXCEPT !.kind = "Ipv4", !.octets = octets]
HostIpv6(groups) == [HostErr EXCEPT !.kind = "Ipv6", !.groups = groups]

\* The result of one argument for every member of a sequence of texts
RECURSIVE Numbers(_, _)
Numbers(pieces, radix) ==
    IF pieces = <<>> THEN <<>>
    ELSE <<NumberIn(pieces[1], radix)>> \o Numbers(Tail(pieces), radix)
RECURSIVE Texts(_, _)
Texts(numbers, radix) ==
    IF numbers = <<>> THEN <<>>
    ELSE <<IF radix = 16 THEN ToHex(numbers[1]) ELSE ToDecimal(numbers[1])>>
         \o Texts(Tail(numbers), radix)

\* url's parse_ipv4number: hexadecimal after 0x, octal after a leading 0,
\* decimal otherwise
ParseIpv4Number(s) ==
    IF s = <<>> THEN NumErr
    ELSE IF Len(s) >= 2 /\ s[1] = "0" /\ s[2] \in {"x", "X"}
    THEN IF \A i \in 3..Len(s) : IsHexDigit(s[i])
         THEN NumOk(NumberIn(SubSeq(s, 3, Len(s)), 16)) ELSE NumErr
    ELSE IF Len(s) >= 2 /\ s[1] = "0"
    THEN IF \A i \in 2..Len(s) : IsDigit(s[i]) /\ DigitVal(s[i]) < 8
         THEN NumOk(NumberIn(Tail(s), 8)) ELSE NumErr
    ELSE IF \A i \in 1..Len(s) : IsDigit(s[i])
         THEN NumOk(NumberIn(s, 10)) ELSE NumErr

\* The dot-separated parts of a domain, a single trailing empty part dropped
Ipv4Parts(domain) ==
    LET parts == SplitOn(domain, ".")
    IN  IF Len(parts) > 1 /\ parts[Len(parts)] = <<>>
        THEN SubSeq(parts, 1, Len(parts) - 1) ELSE parts

\* url's ends_in_a_number: the last part is all digits or a 0x number
EndsInANumber(domain) ==
    LET parts == Ipv4Parts(domain)
        last == parts[Len(parts)]
    IN  /\ last # <<>>
        /\ \/ \A i \in 1..Len(last) : IsDigit(last[i])
           \/ ParseIpv4Number(last).ok

RECURSIVE Pow(_, _)
Pow(b, e) == IF e = 0 THEN 1 ELSE b * Pow(b, e - 1)

\* url's parse_ipv4addr: at most four numbers, all but the last below 256,
\* the last filling the remaining bytes
ParseIpv4Addr(domain) ==
    LET parts == Ipv4Parts(domain)
        n == Len(parts)
        num(i) == ParseIpv4Number(parts[i])
    IN  IF n > 4 \/ \E i \in 1..n : ~num(i).ok THEN HostErr
        ELSE IF \E i \in 1..(n - 1) : num(i).v > 255 THEN HostErr
        ELSE IF num(n).v >= Pow(256, 5 - n) THEN HostErr
        ELSE LET RECURSIVE High(_)
                 High(i) == IF i >= n THEN 0 ELSE num(i).v * Pow(256, 4 - i) + High(i + 1)
                 ip == High(1) + num(n).v
             IN  HostIpv4(<< ip \div Pow(256, 3), (ip \div Pow(256, 2)) % 256,
                             (ip \div 256) % 256, ip % 256 >>)

\* One piece of an IPv6 literal: one to four hexadecimal digits
IsIpv6Piece(s) == Len(s) \in 1..4 /\ \A i \in 1..Len(s) : IsHexDigit(s[i])
\* The positions at which a text holds `::`
DoubleColons(s) == {i \in 1..(Len(s) - 1) : s[i] = ":" /\ s[i + 1] = ":"}
RECURSIVE Zeros(_)
Zeros(n) == IF n <= 0 THEN <<>> ELSE <<0>> \o Zeros(n - 1)
\* url's parse_ipv6addr on the text between the brackets: eight pieces, or
\* fewer around one `::` that stands for the missing ones (at least one)
ParseIpv6Addr(s) ==
    LET dc == DoubleColons(s)
    IN  IF dc = {}
        THEN LET pieces == SplitOn(s, ":")
             IN  IF Len(pieces) = 8 /\ \A i \in 1..8 : IsIpv6Piece(pieces[i])
                 THEN HostIpv6(Numbers(pieces, 16)) ELSE HostErr
        ELSE IF Cardinality(dc) > 1 THEN HostErr
        ELSE LET at == CHOOSE i \in dc : TRUE
                 left == SubSeq(s, 1, at - 1)
                 right == SubSeq(s, at + 2, Len(s))
                 lp == IF left = <<>> THEN <<>> ELSE SplitOn(left, ":")
                 rp == IF right = <<>> THEN <<>> ELSE SplitOn(right, ":")
             IN  IF /\ Len(lp) + Len(rp) <= 7
                    /\ \A i \in 1..Len(lp) : IsIpv6Piece(lp[i])
                    /\ \A i \in 1..Len(rp) : IsIpv6Piece(rp[i])
                 THEN HostIpv6(Numbers(lp, 16) \o Zeros(8 - Len(lp) - Len(rp))
                               \o Numbers(rp, 16))
                 ELSE HostErr

\* Characters no domain may hold
ForbiddenHostCodePoints ==
    {" ", "#", "/", ":", "<", ">", "?", "@", "[", "\\", "]", "^", "|"}

\* url::Host::parse: a bracketed IPv6 literal, or a domain, lower-cased, that
\* is an IPv4 address when it ends in a number. (The texts hold no `%` and
\* no character outside ASCII.)
HostParse(input) ==
    IF input # <<>> /\ input[1] = "["
    THEN IF input[Len(input)] # "]" THEN HostErr
         ELSE ParseIpv6Addr(SubSeq(input, 2, Len(input) - 1))
    ELSE LET domain == Lowercase(input)
         IN  IF domain = <<>> THEN HostErr
             ELSE IF \E i \in 1..Len(domain) : domain[i] \in ForbiddenHostCodePoints
             THEN HostErr
             ELSE IF EndsInANumber(domain) THEN ParseIpv4Addr(domain)
             ELSE HostDomain(domain)

\* Length of the run of zero groups that starts at position i
RECURSIVE ZeroRun(_, _)
ZeroRun(groups, i) ==
    IF i > Len(groups) \/ groups[i] # 0 THEN 0 ELSE 1 + ZeroRun(groups, i + 1)
\* The text of an IPv6 address: lower-case hexadecimal groups, the first
\* longest run of two or more zero groups written `::`
WriteIpv6(groups) ==
    LET longest == CHOOSE n \in 0..8 :
                      /\ \E i \in 1..8 : ZeroRun(groups, i) = n
                      /\ \A i \in 1..8 : ZeroRun(groups, i) <= n
        at == CHOOSE i \in 1..8 :
                  /\ ZeroRun(groups, i) = longest
                  /\ \A j \in 1..(i - 1) : ZeroRun(groups, j) < longest
    IN  IF longest < 2 THEN JoinWith(Texts(groups, 16), ":")
        ELSE JoinWith(Texts(SubSeq(groups, 1, at - 1), 16), ":")
             \o <<":", ":">>
             \o JoinWith(Texts(SubSeq(groups, at + longest, 8), 16), ":")

\* Display of url::Host
HostDisplay(host) ==
    CASE host.kind = "Domain" -> host.name
      [] host.kind = "Ipv4" -> JoinWith(Texts(host.octets, 10), ".")
      [] host.kind = "Ipv6" -> <<"[">> \o WriteIpv6(host.groups) \o <<"]">>

(***************************************************************************)
(* FdbProcessAddress (address.rs)                                          *)
(***************************************************************************)
\* `const TLS_SUFFIX: &str = ":tls";`
TLS_SUFFIX == <<":", "t", "l", "s">>

\* Result<FdbProcessAddress, AddressError>: res is "Ok" or the error
AddressErr(e) == [res |-> e, host |-> HostErr, port |-> 0, tls |-> FALSE]
FdbProcessAddressNew(host, port, tls) ==
    [res |-> "Ok", host |-> host, port |-> port, tls |-> tls]

\* FdbProcessAddressParse checking the host before the port
FdbProcessAddressParseHostFirst(s) ==
    LET tls == EndsWith(s, TLS_SUFFIX)
        host_port == IF tls THEN SubSeq(s, 1, Len(s) - Len(TLS_SUFFIX)) ELSE s
        port_pos == RFind(host_port, ":")
        port == ParseU16(SubSeq(host_port, port_pos + 1, Len(host_port)))
        host == HostParse(SubSeq(host_port, 1, port_pos - 1))
    IN  IF port_pos = 0 THEN AddressErr("MissingPort")
        ELSE IF host.kind = "Err" THEN AddressErr("ParsingHost")
        ELSE IF ~port.ok THEN AddressErr("ParsingPort")
        ELSE FdbProcessAddressNew(host, port.v, tls)

\* FdbProcessAddress::parse
FdbProcessAddressParse(s) ==
    LET tls == EndsWith(s, TLS_SUFFIX)
        host_port == IF tls THEN SubSeq(s, 1, Len(s) - Len(TLS_SUFFIX)) ELSE s
        port_pos == RFind(host_port, ":")
        port_str == SubSeq(host_port, port_pos + 1, Len(host_port))
        port == ParseU16(port_str)
        host_str == SubSeq(host_port, 1, port_pos - 1)
        host == HostParse(host_str)
    IN  IF port_pos = 0 THEN AddressErr("MissingPort")
        ELSE IF ~port.ok THEN AddressErr("ParsingPort")
        ELSE IF host.kind = "Err" THEN AddressErr("ParsingHost")
        ELSE FdbProcessAddressNew(host, port.v, tls)

\* FdbProcessAddressDisplay without the suffix of a TLS endpoint
FdbProcessAddressDisplayWithoutTls(a) ==
    HostDisplay(a.host) \o <<":">> \o ToDecimal(a.port)

\* impl Display for FdbProcessAddress
FdbProcessAddressDisplay(a) ==
    HostDisplay(a.host) \o <<":">> \o ToDecimal(a.port)
    \o (IF a.tls THEN TLS_SUFFIX ELSE <<>>)

(***************************************************************************)
(* NetworkAddress (network_address.rs)                                     *)
(***************************************************************************)
\* Ipv4Addr::from_str: four decimal numbers below 256, of one to three
\* digits, without leading zeros
ParseIpv4Strict(s) ==
    LET parts == SplitOn(s, ".")
        octet(p) == /\ Len(p) \in 1..3
                    /\ \A i \in 1..Len(p) : IsDigit(p[i])
                    /\ Len(p) > 1 => p[1] # "0"
                    /\ NumberIn(p, 10) <= 255
    IN  IF Len(parts) = 4 /\ \A i \in 1..4 : octet(parts[i])
        THEN HostIpv4(Numbers(parts, 10)) ELSE HostErr

\* Result<NetworkAddress, String>: variant is "Ipv4", "Ipv6", "Dns" or "Err"
NetworkErr == [variant |-> "Err", ip |-> HostErr, hostname |-> <<>>, port |-> 0]
NetworkIp(host, port) == [NetworkErr EXCEPT !.variant = host.kind, !.ip = host, !.port = port]
NetworkDns(hostname, port) ==
    [NetworkErr EXCEPT !.variant = "Dns", !.hostname = hostname, !.port = port]

\* str::parse::<SocketAddr>: `a.b.c.d:port` or `[ipv6]:port`, the port in
\* decimal digits only
SocketAddrParse(s) ==
    LET colon_pos == RFind(s, ":")
        ip_str == SubSeq(s, 1, colon_pos - 1)
        port_str == SubSeq(s, colon_pos + 1, Len(s))
        port == IF port_str # <<>> /\ port_str[1] = "+" THEN NumErr ELSE ParseU16(port_str)
        ip == IF ip_str # <<>> /\ ip_str[1] = "[" /\ ip_str[Len(ip_str)] = "]"
              THEN ParseIpv6Addr(SubSeq(ip_str, 2, Len(ip_str) - 1))
              ELSE ParseIpv4Strict(ip_str)
    IN  IF colon_pos = 0 \/ ~port.ok \/ ip.kind = "Err" THEN NetworkErr
        ELSE NetworkIp(ip, port.v)

\* impl FromStr for NetworkAddress
NetworkAddressFromStr(s) ==
    LET addr == SocketAddrParse(s)
        colon_pos == RFind(s, ":")
        hostname == SubSeq(s, 1, colon_pos - 1)
        port_str == SubSeq(s, colon_pos + 1, Len(s))
        port == ParseU16(port_str)
    IN  IF addr.variant # "Err" THEN addr
        ELSE IF colon_pos = 0 THEN NetworkErr
        ELSE IF hostname = <<>> THEN NetworkErr
        ELSE IF ~port.ok THEN NetworkErr
        ELSE NetworkDns(hostname, port.v)

(***************************************************************************)
(* The endpoint texts the parsers are given                                *)
(***************************************************************************)
\* Host parts: empty, domains, IPv4 and IPv6 literals in and out of their
\* canonical form, unbracketed and unterminated IPv6, a forbidden character
HostTexts ==
    { <<>>,
      <<"h", "o", "s", "t", "n", "a", "m", "e">>,
      <<"s", "o", "m", "e", "d", "o", "m", "a", "i", "n", ".", "c", "o", "m">>,
      <<"S", "o", "m", "e", "D", "o", "m", "a", "i", "n", ".", "c", "o", "m">>,
      <<"1", "2", "7", ".", "0", ".", "0", ".", "1">>,
      <<"1", "2", "7", ".", "1">>,
      <<"0", "1", "0", ".", "0", ".", "0", ".", "1">>,
      <<"9", "9", "9", ".", "0", ".", "0", ".", "1">>,
      <<"[", ":", ":", "1", "]">>,
      <<"[", "0", ":", "0", ":", "0", ":", "0", ":", "0", ":", "0", ":", "0", ":", "1", "]">>,
      <<"[", "2", "0", "0", "1", ":", "d", "b", "8", ":", ":", "1", "]">>,
      <<"[", "2", "0", "0", "1", ":", "D", "B", "8", ":", ":", "1", "]">>,
      <<"[", ":", ":", "1">>,
      <<":", ":", "1">>,
      <<"2", "0", "0", "1", ":", "d", "b", "8", ":", ":", "1">>,
      <<"a", " ", "b">> }
\* Port parts: in range, with leading zero or sign, out of range, not a number
PortTexts ==
    { <<"4", "5", "0", "0">>,
      <<"0", "4", "5", "0", "0">>,
      <<"+", "4", "5", "0", "0">>,
      <<"1", "2", "3", "4">>,
      <<"6", "5", "5", "3", "5">>,
      <<"6", "5", "5", "3", "6">>,
      <<"n", "o", "t", "a", "p", "o", "r", "t">>,
      <<>> }
\* host, host:port, host:tls and host:port:tls
EndpointTexts ==
    {h \o p \o s : h \in HostTexts,
                   p \in {<<>>} \cup {<<":">> \o q : q \in PortTexts},
                   s \in {<<>>, TLS_SUFFIX}}

\* Nothing parsed yet
NotParsed == AddressErr("NotParsed")
NotParsedNetwork == [NetworkErr EXCEPT !.variant = "NotParsed"]

\* `FdbProcessAddress::parse(text)`
Parse ==
    /\ address = NotParsed
    /\ address' = FdbProcessAddressParse(text)
    /\ UNCHANGED <<driver, pending, snapshot, keyed, text, rendered, network>>

\* `address.to_string()`
ToText ==
    /\ address.res = "Ok" /\ rendered = <<>>
    /\ rendered' = FdbProcessAddressDisplay(address)
    /\ UNCHANGED <<driver, pending, snapshot, keyed, text, address, network>>

\* `text.parse::<NetworkAddress>()`
FromStr ==
    /\ network = NotParsedNetwork
    /\ network' = NetworkAddressFromStr(text)
    /\ UNCHANGED <<driver, pending, snapshot, keyed, text, address, rendered>>

\* No GET /metrics served yet
NoSnapshot == [g \in GaugeNames |-> None]

\* The state after construction, the status key holding documents of family e
Start(e) ==
    /\ cluster \in {"none", "utf8", "nonutf8"}
    /\ pc = "fetch"
    /\ json_bytes = NoBytes
    /\ status = NoResult
    /\ gauge = [g \in GaugeNames |-> 0]
    /\ counter = [c \in CounterNames |-> 0]
    /\ registered = {}
    /\ ticks = <<>>
    /\ httpPc = "bind"
    /\ proc = "running"
    /\ exitCode = 0
    /\ log = {}
    /\ env = e
    /\ sleeps = <<>>
    /\ pending = <<>>
    /\ snapshot = NoSnapshot
    /\ series = NoSeries
    /\ keyedDocs = <<>>
    /\ address = NotParsed
    /\ rendered = <<>>
    /\ network = NotParsedNetwork

\* No endpoint text is given
NoText == <<>>

Init == Start("any") /\ text = NoText

Next ==
    \/ Fetch
    \/ MatchOk
    \/ MatchFdbBinding
    \/ MatchErr
    \/ Sleep
    \/ HttpBind
    \/ HttpAcceptErr

Spec == Init /\ [][Next]_vars

\* The runtime polls a task that can make progress: the arms of the match are
\* synchronous code and the timer of the sleep fires. Nothing makes a fetch
\* return, and nothing makes the server fail.
SpecLive == Spec /\ WF_vars(MatchOk) /\ WF_vars(MatchErr) /\ WF_vars(Sleep)

\* The conversion passes of successive documents over a keyed metric family
InitKeyed == Start("any") /\ cluster = "none" /\ text = NoText
NextKeyed == KeyedTick
SpecKeyed == InitKeyed /\ [][NextKeyed]_vars

\* The driver converting write by write while connections are served
InitReads == Start("reads") /\ text = NoText
NextReads ==
    \/ Fetch
    \/ ProcessMetricsCall
    \/ GaugeSet
    \/ ProcessMetricsReturn
    \/ MatchFdbBinding
    \/ MatchErr
    \/ Sleep
    \/ HttpBind
    \/ HttpAcceptErr
    \/ Metrics
SpecReads == InitReads /\ [][NextReads]_vars

\* The endpoint parsers applied to a text
InitParser == Start("any") /\ cluster = "none" /\ text \in EndpointTexts
NextParser ==
    \/ Parse
    \/ ToText
    \/ FromStr
SpecParser == InitParser /\ [][NextParser]_vars

\* The driver against a cluster whose documents run through every phase name
InitPhases == Start("phases") /\ text = NoText
SpecPhases == InitPhases /\ [][Next]_vars

(***************************************************************************)
(* Vocabulary of the properties                                            *)
(***************************************************************************)
InitGauge == [g \in GaugeNames |-> 0]
NonFatalKinds == ErrorKinds \ {"FdbBinding"}

\* Number of results of kind k the driver has received
Occurrences(k) == Cardinality({i \in 1..Len(ticks) : ticks[i] = k})

\* The step in which the driver converts the document of an Ok result
ConversionPass == pc = "match" /\ status.kind = "Ok" /\ pc' = "sleep"

\* Gauge g is not written by the step: same reading, same registration
Untouched(g) == gauge'[g] = gauge[g] /\ (g \in registered' <=> g \in registered)

\* Gauge g reads v after the step
Reads(g, v) == gauge'[g] = v /\ g \in registered'

\* A key is absent from its object
KeyAbsent(j) == j.t = "absent"
\* A key, or a subtree, is absent or null: it holds no value
NoValue(j) == j.t \in {"absent", "null"}

\* Every value the data object holds is a valid value of its field
ValidScalars(d) == \A k \in ScalarKeys : d.scalars[k].t \in {"absent", "null", "int"}
ValidState(d) ==
    \/ NoValue(d.state)
    \/ /\ d.state.t = "obj"
       /\ d.state.healthy.t \in {"absent", "null", "bool"}
       /\ d.state.description.t \in {"absent", "null", "str"}
       /\ d.state.min_replicas_remaining.t \in {"absent", "null", "int"}
       /\ \/ d.state.name.t = "absent"
          \/ d.state.name.t = "str" /\ d.state.name.s \in RecognizedTags
ValidMoving(d) ==
    \/ NoValue(d.moving_data)
    \/ /\ d.moving_data.t = "obj"
       /\ \A k \in MovingKeys : d.moving_data.fields[k].t = "int"
ValidMovingValues(d) ==
    \/ NoValue(d.moving_data)
    \/ /\ d.moving_data.t = "obj"
       /\ \A k \in MovingKeys : d.moving_data.fields[k].t \in {"absent", "int"}

(***************************************************************************)
(* C1. A tick whose fetch or decode fails changes no published gauge: the  *)
(* readings and the registrations of the gauges change only in the step    *)
(* that converts an Ok result, so after any run of failing ticks they are  *)
(* those the last converted tick left; a failing tick moves only error     *)
(* counters.                                                               *)
(***************************************************************************)
C1_FailingTickKeepsGauges ==
    [][ /\ (\E g \in GaugeNames : ~Untouched(g)) => ConversionPass
        /\ counter' # counter => pc = "match" /\ status.kind \in ErrorKinds ]_vars

\* a converted tick set the total-kv-size gauge, the next tick failed to
\* decode, and the gauge still reads the converted value
C1_Witness ==
    /\ ticks = <<"Ok", "Parsing">> /\ pc = "sleep"
    /\ "P_CLUSTER_TOTAL_KV_SIZE_BYTES" \in registered
    /\ gauge["P_CLUSTER_TOTAL_KV_SIZE_BYTES"] = 42
    /\ counter["P_FDB_EXPORTER_PARSING_ERROR"] = 1

(***************************************************************************)
(* C2. The loop of run_status_fetcher ends exactly on a result             *)
(* FetchError::FdbBinding: that result makes the function return, after    *)
(* which no fetch is issued, and it can only be the last result received;  *)
(* every other result takes the loop to the sleep, and the sleep to the    *)
(* next fetch. (The loop is otherwise only dropped with the process, when  *)
(* run_http_server has returned.)                                          *)
(***************************************************************************)
C2_LoopEndsOnlyOnBinding ==
    /\ [] /\ pc = "returned" => ticks # <<>> /\ ticks[Len(ticks)] = "FdbBinding"
          /\ proc = "exited" /\ pc # "returned" => httpPc = "returned"
          /\ \A i \in 1..Len(ticks) :
                ticks[i] = "FdbBinding" => i = Len(ticks) /\ pc \in {"match", "returned"}
    /\ [][ /\ pc = "match" /\ pc' # pc =>
                pc' = IF status.kind = "FdbBinding" THEN "returned" ELSE "sleep"
           /\ pc = "sleep" /\ pc' # pc => pc' = "fetch"
           /\ pc = "fetch" /\ pc' # pc => pc' = "match"
           /\ ticks' # ticks => pc = "fetch" /\ Len(ticks') = Len(ticks) + 1
           /\ pc = "returned" => pc' = "returned" /\ ticks' = ticks ]_vars

\* a tick without the status key was followed by a tick with a binding
\* failure, on which the function returned
C2_Witness ==
    /\ ticks = <<"StatusNotFound", "FdbBinding">>
    /\ pc = "returned"

(***************************************************************************)
(* C3 (as claimed). Every fetch error the driver has handled, of each of   *)
(* the four kinds, the binding error that ends the loop included, has      *)
(* incremented the counter of its kind by one and no other counter.        *)
(***************************************************************************)
C3_EveryErrorKindCounted ==
    pc \in {"fetch", "sleep", "returned"} =>
        \A k \in ErrorKinds : counter[CounterOf[k]] = Occurrences(k)

(***************************************************************************)
(* C4 (as claimed). A failure of the transactional read of the status key  *)
(* is tick-local and never makes run_status_fetcher return: only a         *)
(* misconfigured cluster file path is reported as a binding failure.       *)
(***************************************************************************)
C4_ReadFailureIsTickLocal ==
    /\ status.err = "NonRetryableFdbError" => pc # "returned" /\ proc = "running"
    /\ pc = "returned" => status.err = "CustomError"

(***************************************************************************)
(* C5 (as claimed). When the driver ends with a binding failure the        *)
(* failure is logged and the process exits with a non-zero status; the     *)
(* process exits only when a task has returned an error.                   *)
(***************************************************************************)
C5_BindingFailureExitsNonZero ==
    /\ proc = "exited" /\ pc = "returned" =>
            "HTTP fetcher thread failed" \in log /\ exitCode # 0
    /\ proc = "exited" => pc = "returned" \/ httpPc = "returned"

(***************************************************************************)
(* C6. After a non-fatal failure on tick 1 and a successful fetch of a     *)
(* document D on tick 2, the counter of the failure's kind reads 1, every  *)
(* other counter 0, and every gauge reads (and is registered) as in the    *)
(* run whose only tick converts D.                                         *)
(***************************************************************************)
C6_FailureThenSuccess ==
    (Len(ticks) = 2 /\ ticks[1] \in NonFatalKinds /\ ticks[2] = "Ok"
        /\ pc \in {"sleep", "fetch"}) =>
            /\ counter = [c \in CounterNames |-> IF c = CounterOf[ticks[1]] THEN 1 ELSE 0]
            /\ gauge = ApplyWrites(InitGauge, ProcessMetrics(status.value))
            /\ registered \cap GaugeNames = Touched(ProcessMetrics(status.value))

\* a failed connection to the cluster, then the document that holds only
\* total_kv_size_bytes
C6_Witness ==
    /\ ticks = <<"Fdb", "Ok">> /\ pc = "sleep"
    /\ json_bytes = [EmptyData EXCEPT !.scalars["total_kv_size_bytes"] = JInt(42)]
    /\ gauge["P_CLUSTER_TOTAL_KV_SIZE_BYTES"] = 42
    /\ counter["P_FDB_EXPORTER_FDB_ERROR"] = 1

(***************************************************************************)
(* The fields of the cluster data subtree in the document of a conversion  *)
(* pass, and what the pass does to the gauge of each                       *)
(***************************************************************************)
\* an Option<i64> field
ScalarFieldRule(k) ==
    IF NoValue(json_bytes.scalars[k])
    THEN Untouched(GaugeOf[k])
    ELSE Reads(GaugeOf[k], json_bytes.scalars[k].n)

\* state.healthy
HealthyFieldRule ==
    IF NoValue(json_bytes.state) \/ NoValue(json_bytes.state.healthy)
    THEN Untouched("P_CLUSTER_STATE_HEALTHY")
    ELSE Reads("P_CLUSTER_STATE_HEALTHY", json_bytes.state.healthy.n)

\* The ordinal of a phase tag
Ordinal(tag) ==
    CASE tag = "initializing" -> 0
      [] tag = "missing_data" -> 1
      [] tag = "healing" -> 2
      [] tag = "optimizing_team_collections" -> 3
      [] tag = "healthy_populating_region" -> 4
      [] tag = "healthy_repartitioning" -> 5
      [] tag = "healthy_removing_server" -> 6
      [] tag = "healthy_rebalancing" -> 7
      [] tag = "healthy" -> 8
      [] tag = "healthy_perpetual_wiggle" -> 9
      [] tag = "unknown" -> 10

(***************************************************************************)
(* C7 (as claimed). In every conversion pass, each field of the cluster    *)
(* data subtree (the six byte and count fields, state.healthy, state.name) *)
(* that is absent from the document leaves its gauge at the last published *)
(* value, and each field that is present makes its gauge read the supplied *)
(* value.                                                                  *)
(***************************************************************************)
C7_AbsentFieldKeepsGauge ==
    [][ ConversionPass =>
          /\ \A k \in ScalarKeys : ScalarFieldRule(k)
          /\ HealthyFieldRule
          /\ IF NoValue(json_bytes.state) \/ KeyAbsent(json_bytes.state.name)
             THEN Untouched("P_CLUSTER_STATE_CURRENT")
             ELSE Reads("P_CLUSTER_STATE_CURRENT", Ordinal(json_bytes.state.name.s)) ]_vars

(***************************************************************************)
(* C7 (amended). As claimed for the six byte and count fields and for      *)
(* state.healthy. The state gauge is left at its last published value when *)
(* the state subtree is absent; when the state subtree is present it is    *)
(* written: with the ordinal of the name if the name key is present, and   *)
(* with the ordinal of Unknown (10) if the name key is absent.             *)
(***************************************************************************)
C7_AbsentFieldKeepsGaugeButName ==
    [][ ConversionPass =>
          /\ \A k \in ScalarKeys : ScalarFieldRule(k)
          /\ HealthyFieldRule
          /\ IF NoValue(json_bytes.state)
             THEN Untouched("P_CLUSTER_STATE_CURRENT")
             ELSE Reads("P_CLUSTER_STATE_CURRENT",
                        IF KeyAbsent(json_bytes.state.name) THEN 10
                        ELSE Ordinal(json_bytes.state.name.s)) ]_vars

\* tick 1 published total_kv_size_bytes = 42 and the phase healthy; tick 2's
\* document holds a state without a name and no total_kv_size_bytes
C7_Witness ==
    /\ ticks = <<"Ok", "Ok">> /\ pc = "sleep"
    /\ json_bytes = [EmptyData EXCEPT !.state = ObjState(JBool(FALSE), JAbsent)]
    /\ gauge["P_CLUSTER_TOTAL_KV_SIZE_BYTES"] = 42
    /\ gauge["P_CLUSTER_STATE_CURRENT"] = 10
    /\ gauge["P_CLUSTER_STATE_HEALTHY"] = 0
    /\ gauge["P_CLUSTER_MOVING_DATA_IN_FLIGHT_BYTES"] = 42

(***************************************************************************)
(* C8. A document from which moving_data, or state, is absent decodes      *)
(* whenever the values it does hold are valid, and its conversion pass     *)
(* writes none of the gauges of the absent subtree (in-flight and in-queue *)
(* bytes; healthy and state): each keeps its reading and registration.     *)
(***************************************************************************)
C8_AbsentSubtreeSkipped ==
    /\ [] /\ ( /\ json_bytes.root = "data" /\ NoValue(json_bytes.moving_data)
               /\ ValidScalars(json_bytes) /\ ValidState(json_bytes) )
                 => status.kind = "Ok" /\ ~status.value.data.v.moving_data.some
          /\ ( /\ json_bytes.root = "data" /\ NoValue(json_bytes.state)
               /\ ValidScalars(json_bytes) /\ ValidMoving(json_bytes) )
                 => status.kind = "Ok" /\ ~status.value.data.v.state.some
    /\ [][ ConversionPass =>
            /\ NoValue(json_bytes.moving_data) =>
                    /\ Untouched("P_CLUSTER_MOVING_DATA_IN_FLIGHT_BYTES")
                    /\ Untouched("P_CLUSTER_MOVING_DATA_IN_QUEUE_BYTES")
            /\ NoValue(json_bytes.state) =>
                    /\ Untouched("P_CLUSTER_STATE_HEALTHY")
                    /\ Untouched("P_CLUSTER_STATE_CURRENT") ]_vars

\* tick 1 published the whole subtree; tick 2's document holds neither
\* moving_data nor state, and the four gauges read what tick 1 wrote
C8_Witness ==
    /\ ticks = <<"Ok", "Ok">> /\ pc = "sleep"
    /\ json_bytes = [EmptyData EXCEPT !.scalars["partitions_count"] = JInt(7)]
    /\ gauge["P_CLUSTER_PARTITION_COUNT"] = 7
    /\ gauge["P_CLUSTER_MOVING_DATA_IN_FLIGHT_BYTES"] = 42
    /\ gauge["P_CLUSTER_MOVING_DATA_IN_QUEUE_BYTES"] = 7
    /\ gauge["P_CLUSTER_STATE_HEALTHY"] = 1
    /\ gauge["P_CLUSTER_STATE_CURRENT"] = 8

(***************************************************************************)
(* C9 (as claimed). A document whose state name is a string that is none   *)
(* of the phase tags, and whose other values are valid, decodes, with the  *)
(* name decoded to Unknown: the result is Ok and no parsing error.         *)
(***************************************************************************)
C9_UnrecognizedNameIsUnknown ==
    ( /\ json_bytes.root = "data" /\ json_bytes.state.t = "obj"
      /\ json_bytes.state.name.t = "str" /\ json_bytes.state.name.s \notin RecognizedTags
      /\ ValidScalars(json_bytes) /\ ValidMovingValues(json_bytes)
      /\ json_bytes.state.healthy.t \in {"absent", "null", "bool"} )
        => /\ status.kind = "Ok"
           /\ status.value.data.some
           /\ status.value.data.v.state.some
           /\ status.value.data.v.state.v.name = 10

(***************************************************************************)
(* C10 (as claimed). A key missing from the document never makes decoding  *)
(* fail: a document all of whose present values are valid decodes, also    *)
(* when its moving_data object lacks one of its four keys.                 *)
(***************************************************************************)
C10_MissingKeyNeverFails ==
    ( /\ json_bytes.root \in {"data", "no_data", "no_cluster"}
      /\ ValidScalars(json_bytes) /\ ValidState(json_bytes)
      /\ ValidMovingValues(json_bytes) )
        => status.kind = "Ok"

(***************************************************************************)
(* C17. Whenever the state subtree is present in the document of a         *)
(* conversion pass, the pass writes the state gauge with the fixed ordinal *)
(* of the decoded phase (initializing=0 .. healthy_perpetual_wiggle=9,     *)
(* unknown=10), and with 10 when the state object has no name key;         *)
(* distinct phases give distinct gauge values; the healthy gauge is        *)
(* written, with 0 or 1, only when the healthy flag is present.            *)
(***************************************************************************)
C17_StateGaugeIsPhaseOrdinal ==
    [][ ConversionPass /\ ~NoValue(json_bytes.state) =>
          /\ Reads("P_CLUSTER_STATE_CURRENT",
                   IF KeyAbsent(json_bytes.state.name) THEN 10
                   ELSE Ordinal(json_bytes.state.name.s))
          /\ \A t1, t2 \in RecognizedTags :
                t1 # t2 => Discriminant(t1) # Discriminant(t2)
          /\ IF NoValue(json_bytes.state.healthy)
             THEN Untouched("P_CLUSTER_STATE_HEALTHY")
             ELSE /\ Reads("P_CLUSTER_STATE_HEALTHY", json_bytes.state.healthy.n)
                  /\ gauge'["P_CLUSTER_STATE_HEALTHY"] \in {0, 1} ]_vars

\* a first tick whose state names the last phase but the default one and
\* carries no healthy flag: the state gauge reads 9, the healthy gauge is
\* not yet registered
C17_Witness ==
    /\ ticks = <<"Ok">> /\ pc = "sleep"
    /\ json_bytes.state = ObjState(JAbsent, JStr("healthy_perpetual_wiggle"))
    /\ gauge["P_CLUSTER_STATE_CURRENT"] = 9
    /\ "P_CLUSTER_STATE_CURRENT" \in registered
    /\ "P_CLUSTER_STATE_HEALTHY" \notin registered

(***************************************************************************)
(* C15. In every run of the driver a tick is fetch, then conversion or     *)
(* error counting, then sleep: gauges and counters move only between the   *)
(* fetch and the sleep, exactly one sleep of the configured period follows *)
(* every non-fatal tick, succeeded or failed, and a fetch returns only     *)
(* when every earlier tick has been handled and slept after. A tick that   *)
(* was not a binding failure is always followed by the issue of another    *)
(* fetch (as long as the process runs: the driver is dropped when          *)
(* run_http_server returns).                                               *)
(***************************************************************************)
C15_TickOrderAndOneSleep ==
    /\ [] /\ \A i \in 1..Len(sleeps) : sleeps[i] = DelaySec
          /\ Len(sleeps) = IF pc = "fetch" THEN Len(ticks) ELSE Len(ticks) - 1
    /\ [][ /\ ticks' # ticks =>
                pc = "fetch" /\ pc' = "match" /\ Len(sleeps) = Len(ticks)
           /\ gauge' # gauge \/ counter' # counter \/ registered' # registered =>
                pc = "match" /\ pc' = "sleep"
           /\ pc = "match" /\ pc' = "sleep" =>
                IF status.kind = "Ok" THEN counter' = counter
                ELSE gauge' = gauge /\ counter' # counter
           /\ sleeps' # sleeps =>
                pc = "sleep" /\ pc' = "fetch" /\ sleeps' = Append(sleeps, DelaySec)
           /\ pc = "sleep" /\ pc' # pc => sleeps' # sleeps ]_vars
    /\ (pc \in {"match", "sleep"} /\ ~(pc = "match" /\ status.kind = "FdbBinding"))
          ~> (pc = "fetch" \/ proc = "exited")

\* a tick that failed to decode and a tick that converted have each been
\* followed by one sleep of the period, and the third fetch is issued
C15_Witness ==
    /\ ticks = <<"Parsing", "Ok">>
    /\ pc = "fetch"
    /\ sleeps = <<DelaySec, DelaySec>>
    /\ proc = "running"

(***************************************************************************)
(* C13. A keyed series is created or overwritten only by a conversion pass *)
(* whose document holds a value for its key, which it then reads; a pass   *)
(* whose document omits the key, or holds it without a value, leaves the   *)
(* series as it was, and no pass removes a series. Hence when one tick     *)
(* supplies v under key K and the next tick's document omits K, the series *)
(* of K still reads v after it.                                            *)
(***************************************************************************)
C13_KeyedSeriesPersists ==
    /\ [] \A i \in 1..(Len(keyedDocs) - 1), K \in Keys :
            /\ i + 1 = Len(keyedDocs)
            /\ keyedDocs[i][K].present /\ keyedDocs[i][K].field.some
            /\ ~keyedDocs[i + 1][K].present
            => series[K] = Some(keyedDocs[i][K].field.v)
    /\ [][ \A K \in Keys :
             LET doc == keyedDocs'[Len(keyedDocs')]
             IN  /\ keyedDocs' # keyedDocs /\ doc[K].present /\ doc[K].field.some
                    => series'[K] = Some(doc[K].field.v)
                 /\ series'[K] # series[K]
                    => /\ keyedDocs' # keyedDocs
                       /\ doc[K].present /\ doc[K].field.some
                       /\ series'[K].some ]_vars

\* tick 1 supplied 42 under the first key, tick 2 omitted that key and
\* supplied 7 under the other: both series exist, the first still reads 42
C13_Witness ==
    /\ Len(keyedDocs) = 2
    /\ keyedDocs[1]["10.0.0.1:4500"] = Present(Some(42))
    /\ keyedDocs[2]["10.0.0.1:4500"] = Omitted
    /\ keyedDocs[2]["10.0.0.2:4500"] = Present(Some(7))
    /\ series["10.0.0.1:4500"] = Some(42)
    /\ series["10.0.0.2:4500"] = Some(7)

(***************************************************************************)
(* C16. A GET /metrics served while a conversion pass runs reads, for each *)
(* registered gauge, the value the gauge holds at that moment, which is    *)
(* its initial value or a value a conversion pass has written to it: a     *)
(* gauge changes only by one write of a pass, to the value of that write,  *)
(* taken from the document. Serving a read changes no gauge, no counter    *)
(* and no registration. (That a read may mix the values of two ticks is    *)
(* the state C16_Witness.)                                                 *)
(***************************************************************************)
C16_ReadsSeeWrittenValues ==
    /\ [] \A g \in GaugeNames :
            snapshot[g].some => snapshot[g].v \in {InitGauge[g]} \cup IntInputs
    /\ [][ /\ snapshot' # snapshot =>
                /\ gauge' = gauge /\ counter' = counter /\ registered' = registered
                /\ pc' = pc /\ pending' = pending
                /\ \A g \in GaugeNames :
                      snapshot'[g] = IF g \in registered THEN Some(gauge[g]) ELSE None
           /\ \A g \in GaugeNames :
                gauge'[g] # gauge[g] =>
                    /\ pc = "convert" /\ pending # <<>>
                    /\ Head(pending) = [g |-> g, v |-> gauge'[g]]
                    /\ \E k \in ScalarKeys :
                          GaugeOf[k] = g /\ json_bytes.scalars[k] = JInt(gauge'[g]) ]_vars

\* tick 1 wrote 7 to both gauges; tick 2's document holds 42 for both, and a
\* read served between its two writes saw 42 in the first and 7 in the second
C16_Witness ==
    /\ ticks = <<"Ok", "Ok">> /\ pc = "convert"
    /\ json_bytes.scalars["total_kv_size_bytes"] = JInt(42)
    /\ json_bytes.scalars["total_disk_used_bytes"] = JInt(42)
    /\ snapshot["P_CLUSTER_TOTAL_KV_SIZE_BYTES"] = Some(42)
    /\ snapshot["P_CLUSTER_TOTAL_DISK_USED_BYTES"] = Some(7)

(***************************************************************************)
(* The parts of an endpoint text                                           *)
(***************************************************************************)
\* The text without an optional trailing `:tls`
Stripped(t) ==
    IF EndsWith(t, TLS_SUFFIX) THEN SubSeq(t, 1, Len(t) - Len(TLS_SUFFIX)) ELSE t
HasColon(t) == \E i \in 1..Len(t) : t[i] = ":"
\* The parts before and after the last colon of a text that holds one
HostPart(t) == SubSeq(Stripped(t), 1, RFind(Stripped(t), ":") - 1)
PortPart(t) == SubSeq(Stripped(t), RFind(Stripped(t), ":") + 1, Len(Stripped(t)))

\* A port in plain decimal: digits only, no sign, no leading zero
PlainDecimal(p) ==
    /\ p # <<>> /\ \A i \in 1..Len(p) : IsDigit(p[i])
    /\ Len(p) > 1 => p[1] # "0"
\* A host written as url::Host writes it: a domain in lower case, an IPv4
\* address as a dotted quad of plain decimals, an IPv6 address as the
\* bracketed lower-case literal with its longest run of zeros compressed
CanonicalHost(h) ==
    /\ h # <<>>
    /\ \A i \in 1..Len(h) : IndexIn(UpperAlpha, h[i]) = 0
    /\ IF h[1] = "["
       THEN /\ h[Len(h)] = "]"
            /\ ParseIpv6Addr(SubSeq(h, 2, Len(h) - 1)).kind = "Ipv6"
            /\ WriteIpv6(ParseIpv6Addr(SubSeq(h, 2, Len(h) - 1)).groups)
                 = SubSeq(h, 2, Len(h) - 1)
       ELSE EndsInANumber(h) => ParseIpv4Strict(h).kind = "Ipv4"
Canonical(t) == HasColon(Stripped(t)) /\ PlainDecimal(PortPart(t)) /\ CanonicalHost(HostPart(t))

C12_ErrorClassInOrder ==
    address # NotParsed =>
        /\ address.res =
              IF ~HasColon(Stripped(text)) THEN "MissingPort"
              ELSE IF ~ParseU16(PortPart(text)).ok THEN "ParsingPort"
              ELSE IF HostPart(text) = <<>> \/ HostParse(HostPart(text)).kind = "Err"
                   THEN "ParsingHost"
              ELSE "Ok"
        /\ text = <<"h", "o", "s", "t", "n", "a", "m", "e">> => address.res = "MissingPort"
        /\ text = <<":", "4", "5", "0", "0">> => address.res = "ParsingHost"
        /\ text = <<"h", "o", "s", "t", "n", "a", "m", "e", ":", "n", "o", "t", "a", "p", "o", "r", "t">> => address.res = "ParsingPort"
        /\ address.res = "Ok" =>
              HostPart(text) # <<>> /\ HostDisplay(address.host) # <<>>

\* an empty host with a port that is not a number was classified by its port
C12_Witness ==
    /\ text = <<":", "n", "o", "t", "a", "p", "o", "r", "t">>
    /\ address.res = "ParsingPort"

(***************************************************************************)
(* C14. For no endpoint text whose host part holds a double colon,         *)
(* bracketed or not, does a parser return the hostname variant: not the    *)
(* DNS variant of NetworkAddress, not the domain host of FdbProcessAddress.*)
(***************************************************************************)
C14_DoubleColonNeverHostname ==
    HasColon(Stripped(text)) /\ DoubleColons(HostPart(text)) # {} =>
        /\ network.variant # "Dns"
        /\ ~(address.res = "Ok" /\ address.host.kind = "Domain")

====
